---- MODULE Spec2Model ----
(***************************************************************************)
(* Model of fetch_data.py (rize_fetcher): the script that fetches Rize     *)
(* metrics and merges a report section into Obsidian daily notes and       *)
(* weekly reviews.                                                         *)
(*                                                                         *)
(* Text (a document body, a rendered report) is a sequence of tokens.  A   *)
(* token is a run of characters that the merge pattern never splits: the   *)
(* newline, the header prefix "## ", the marker text that follows it, a    *)
(* table cell, a word of the user's own text.  Dates are day numbers; day  *)
(* 0 is a Monday, so weekday(d) = d % 7 as datetime.date.weekday() counts. *)
(* Durations are seconds; metadata hours are hundredths of an hour.        *)
(***************************************************************************)
EXTENDS Integers, Sequences, FiniteSets, TLC

VARIABLES
    args,            \* argparse namespace: weekly, date, days
    config,          \* load_config(args.config): a dict
    env,             \* os.environ: RIZE_API_KEY, OBSIDIAN_VAULT_PATH
    pc,              \* position of the script
    block,           \* which "if __name__ == '__main__'" block is running (1 or 2)
    dates_to_fetch,  \* the daily loop's list of target dates
    idx,             \* index of the loop (into dates_to_fetch, or the weekly i)
    metrics,         \* loop local: result of fetch_daily_data(d)
    projects,        \* loop local: result of fetch_project_data(d)
    agg_metrics,     \* weekly mode: the aggregated bucket
    agg_projects,    \* weekly mode: the aggregated project tally
    fetchLog,        \* requests.post calls issued so far, in order
    dailyDir,        \* whether the daily logs directory exists
    weeklyDir,       \* whether the weekly reviews directory exists
    daily,           \* daily notes on disk, by date
    weekly,          \* weekly reviews on disk, by the week's Monday
    now,             \* datetime.datetime.now(), in minutes
    fatal,           \* the "Vault path not set" error has been printed
    calls,           \* number of update_* calls made so far
    week_data,       \* weekly mode: what each folded day's fetches returned
    last             \* the last update_* call: its inputs and outcome

vars == <<args, config, env, pc, block, dates_to_fetch, idx, metrics, projects,
          agg_metrics, agg_projects, fetchLog, dailyDir, weeklyDir, daily,
          weekly, now, fatal, calls, week_data, last>>

-----------------------------------------------------------------------------
(* Bounds of the model. *)

\* today's date: day 1 is the Tuesday of the week that starts on day 0
Today == 1
\* the clock saturates here
MaxClock == 1
\* update_* calls explored in the specification of the merge
MaxCalls == 2
\* largest --days N explored
MaxDays == 2
\* longest list of categories or projects rendered
MaxLen == 11
\* longest list rendered with three different durations
MaxShort == 3
\* largest single duration rendered, in seconds
MaxSeconds == 5400

-----------------------------------------------------------------------------
(* Python values. *)

\* None, as the value of a numeric field (durations are never negative)
Null == -1

Min(S) == CHOOSE x \in S : \A y \in S : x <= y

\* dict.get(k, default)
Get(d, k, default) == IF k \in DOMAIN d THEN d[k] ELSE default

\* d[k] = v on a dict
Put(d, k, v) == [x \in (DOMAIN d) \cup {k} |-> IF x = k THEN v ELSE d[x]]

\* "\n".join(lines), each line a token sequence
RECURSIVE Join(_)
Join(lines) ==
    IF lines = <<>> THEN <<>>
    ELSE IF Len(lines) = 1 THEN lines[1]
    ELSE lines[1] \o <<"\n">> \o Join(Tail(lines))

\* s[:n]
Take(s, n) == SubSeq(s, 1, IF Len(s) < n THEN Len(s) ELSE n)

-----------------------------------------------------------------------------
(* Tokens. *)

NL == "\n"
SP == " "
H2 == "## "
\* the text after "## " in the daily pattern and header (the chart emoji is dropped)
DAILY_MARKER == "Rize Metrics"
\* the text after "## " in the weekly pattern and header
WEEKLY_MARKER == "Rize Weekly Metrics"
\* the back-reference the code appends to the replacement template
GROUP2 == "\\2"
\* names that hold a backslash: re.sub reads them as template escapes
NAME_GROUP1 == "Q\\1"
NAME_NEWLINE == "C:\\new"
NAME_BADESC == "R\\D"

\* "(HH:MM)" of the daily header
ClockText(t) == " (" \o ToString(t) \o ")"
\* "({start_date} to {end_date})" of the weekly header
RangeText(s, e) == " (" \o ToString(s) \o " to " \o ToString(e) \o ")"
\* "# Daily Log: {date_str}"
DailyTitle(d) == "# Daily Log: " \o ToString(d)
\* "# Weekly Review: {year}-W{week:02}"
WeeklyTitle(s) == "# Weekly Review: " \o ToString(s)

-----------------------------------------------------------------------------
(* format_time and to_hours. *)

\* format_time written to round to the nearest minute
format_time_rounding(seconds) ==
    LET m0 == (seconds + 30) \div 60
        h  == m0 \div 60
        m  == m0 % 60
    IN ToString(h) \o "h " \o ToString(m) \o "m"

\* m, s = divmod(seconds, 60); h, m = divmod(m, 60); f"{h}h {m}m"
format_time(seconds) ==
    LET m0 == seconds \div 60
        h  == m0 \div 60
        m  == m0 % 60
    IN ToString(h) \o "h " \o ToString(m) \o "m"

\* the local copy inside update_weekly_review
weekly_format_time(seconds) ==
    LET m0 == seconds \div 60
        h  == m0 \div 60
        m  == m0 % 60
    IN ToString(h) \o "h " \o ToString(m) \o "m"

\* round(seconds / 3600, 2), as hundredths of an hour; None and 0 give 0.0.
\* (An exact half hundredth, seconds % 36 = 18, is rounded by the float's
\* binary value in Python; the inputs explored here are multiples of 900.)
to_hours(seconds) ==
    IF seconds = Null \/ seconds = 0 THEN 0
    ELSE (seconds * 100 + 1800) \div 3600

-----------------------------------------------------------------------------
(* The frontmatter library, as the code uses it.  A document on disk is    *)
(* [exists, meta, body]: body is the text after the metadata block.        *)

IsSpace(t) == t \in {NL, SP}

RECURSIVE LStrip(_)
LStrip(s) == IF s # <<>> /\ IsSpace(Head(s)) THEN LStrip(Tail(s)) ELSE s

RECURSIVE RStrip(_)
RStrip(s) ==
    IF s # <<>> /\ IsSpace(s[Len(s)]) THEN RStrip(SubSeq(s, 1, Len(s) - 1)) ELSE s

\* str.strip()
Strip(s) == RStrip(LStrip(s))

NoDoc == [exists |-> FALSE, meta |-> <<>>, body |-> <<>>]

\* frontmatter.load(f): the metadata and the stripped content
frontmatter_load(doc) == [metadata |-> doc.meta, content |-> Strip(doc.body)]

\* frontmatter.dumps(post): "---\n{metadata}\n---\n\n{content}\n".strip()
frontmatter_dumps(post) ==
    [exists |-> TRUE, meta |-> post.metadata, body |-> RStrip(post.content)]

-----------------------------------------------------------------------------
(* The merge: re.search and re.sub with                                    *)
(*   r"(\n## <marker>.*?)(\n## |\Z)", re.DOTALL, count=1.                  *)

\* Start of the leftmost match: the newline before "## <marker>"; 0 if none.
MatchStart(s, marker) ==
    LET hits == {i \in 1..(Len(s) - 2) :
                    s[i] = NL /\ s[i + 1] = H2 /\ s[i + 2] = marker}
    IN IF hits = {} THEN 0 ELSE Min(hits)

\* Where the lazy ".*?" stops: at the next "\n## " after the marker, else at
\* the end of the text (\Z), given as Len(s) + 1.
MatchEnd(s, i) ==
    LET ends == {k \in (i + 3)..(Len(s) - 1) : s[k] = NL /\ s[k + 1] = H2}
    IN IF ends = {} THEN Len(s) + 1 ELSE Min(ends)

\* re.search(pattern, content, re.DOTALL) is not None
re_search(s, marker) == MatchStart(s, marker) # 0

\* The replacement string is a template: re.sub expands the escapes in it.
TemplateRaises(tpl) == \E i \in 1..Len(tpl) : tpl[i] = NAME_BADESC

ExpandToken(tok, g1, g2) ==
    IF tok = GROUP2 THEN g2
    ELSE IF tok = NAME_GROUP1 THEN <<"Q">> \o g1
    ELSE IF tok = NAME_NEWLINE THEN <<"C:", NL, "ew">>
    ELSE <<tok>>

RECURSIVE expand_template(_, _, _)
expand_template(tpl, g1, g2) ==
    IF tpl = <<>> THEN <<>>
    ELSE ExpandToken(Head(tpl), g1, g2) \o expand_template(Tail(tpl), g1, g2)

\* re.sub(pattern, f"{new_report}\\2", content, flags=re.DOTALL, count=1),
\* called when re.search found a match
re_sub(s, marker, new_report) ==
    LET i  == MatchStart(s, marker)
        e  == MatchEnd(s, i)
        g1 == SubSeq(s, i, e - 1)
        g2 == IF e <= Len(s) THEN <<NL, H2>> ELSE <<>>
        rest == IF e <= Len(s) THEN SubSeq(s, e + 2, Len(s)) ELSE <<>>
    IN SubSeq(s, 1, i - 1) \o expand_template(new_report \o <<GROUP2>>, g1, g2) \o rest

\* merge with the append written as post.content + new_report
merge_without_separator(content, marker, new_report) ==
    IF re_search(content, marker)
    THEN IF TemplateRaises(new_report)
         THEN [raised |-> TRUE, content |-> content, outcome |-> "error"]
         ELSE [raised |-> FALSE, content |-> re_sub(content, marker, new_report),
               outcome |-> "updated"]
    ELSE [raised |-> FALSE, content |-> content \o new_report, outcome |-> "appended"]

\* The "Smart Update" of both update_* functions: replace the section in
\* place, or append it.  raised: re.sub raised re.error.
merge(content, marker, new_report) ==
    IF re_search(content, marker)
    THEN IF TemplateRaises(new_report)
         THEN [raised |-> TRUE, content |-> content, outcome |-> "error"]
         ELSE [raised |-> FALSE, content |-> re_sub(content, marker, new_report),
               outcome |-> "updated"]
    ELSE [raised |-> FALSE, content |-> content \o <<NL>> \o new_report,
          outcome |-> "appended"]

-----------------------------------------------------------------------------
(* Rendering. *)

\* categories[:10], projects[:10]
TopN == 10

\* list.sort(key=lambda x: x['trackedTime'], reverse=True): a stable sort, so
\* entries of equal duration keep their order
RECURSIVE InsertDesc(_, _)
InsertDesc(x, s) ==
    IF s = <<>> THEN <<x>>
    ELSE IF Head(s).trackedTime >= x.trackedTime
         THEN <<Head(s)>> \o InsertDesc(x, Tail(s))
         ELSE <<x>> \o s

\* sort_desc written as an ascending sort that is then reversed
RECURSIVE InsertBeforeTies(_, _)
InsertBeforeTies(x, s) ==
    IF s = <<>> THEN <<x>>
    ELSE IF Head(s).trackedTime > x.trackedTime
         THEN <<Head(s)>> \o InsertBeforeTies(x, Tail(s))
         ELSE <<x>> \o s

RECURSIVE sort_ascending_reversed(_)
sort_ascending_reversed(s) ==
    IF s = <<>> THEN <<>>
    ELSE InsertBeforeTies(s[Len(s)], sort_ascending_reversed(SubSeq(s, 1, Len(s) - 1)))

RECURSIVE sort_desc(_)
sort_desc(s) ==
    IF s = <<>> THEN <<>>
    ELSE InsertDesc(s[Len(s)], sort_desc(SubSeq(s, 1, Len(s) - 1)))

\* c.get('type', {}).get('name', 'Unknown')
CategoryName(c) == Get(Get(c, "type", <<>>), "name", "Unknown")

\* f"| {name} | {time_str} |"
Row(name, time_str) == <<"| ", name, " | ", time_str, " |">>

\* new_report of update_daily_note: the header, then a table for the
\* categories and one for the projects, each left out when its list is empty
daily_report(m, p, t) ==
    LET categories == sort_desc(Get(m, "categories", <<>>))
        projs == sort_desc(p)
        top_c == Take(categories, TopN)
        top_p == Take(projs, TopN)
        header == <<NL, H2, DAILY_MARKER, ClockText(t), NL>>
        cat_lines ==
            IF categories # <<>>
            THEN <<<<"### Top Categories">>, <<"| Category | Time |">>,
                   <<"| :--- | :--- |">>>>
                 \o [i \in 1..Len(top_c) |->
                        Row(CategoryName(top_c[i]), format_time(top_c[i].trackedTime))]
                 \o <<<<NL>>>>
            ELSE <<>>
        proj_lines ==
            IF projs # <<>>
            THEN <<<<"### Top Projects">>, <<"| Project | Time |">>,
                   <<"| :--- | :--- |">>>>
                 \o [i \in 1..Len(top_p) |->
                        Row(Get(top_p[i], "name", "Unknown"),
                            format_time(top_p[i].trackedTime))]
                 \o <<<<NL>>>>
            ELSE <<>>
    IN Join(<<header>> \o cat_lines \o proj_lines)

\* new_report of update_weekly_review.  The aggregated dicts are kept as
\* lists of [name, trackedTime] in insertion order, as dict.items() yields.
weekly_report(start_date, end_date, am, ap) ==
    LET categories == sort_desc(Get(am, "categories", <<>>))
        projs == sort_desc(ap)
        top_c == Take(categories, TopN)
        top_p == Take(projs, TopN)
        header == <<NL, H2, WEEKLY_MARKER, RangeText(start_date, end_date), NL>>
        cat_lines ==
            IF categories # <<>>
            THEN <<<<"### Top Categories (Week)">>, <<"| Category | Time |">>,
                   <<"| :--- | :--- |">>>>
                 \o [i \in 1..Len(top_c) |->
                        Row(top_c[i].name, weekly_format_time(top_c[i].trackedTime))]
                 \o <<<<NL>>>>
            ELSE <<>>
        proj_lines ==
            IF projs # <<>>
            THEN <<<<"### Top Projects (Week)">>, <<"| Project | Time |">>,
                   <<"| :--- | :--- |">>>>
                 \o [i \in 1..Len(top_p) |->
                        Row(top_p[i].name, weekly_format_time(top_p[i].trackedTime))]
                 \o <<<<NL>>>>
            ELSE <<>>
    IN Join(<<header>> \o cat_lines \o proj_lines)

-----------------------------------------------------------------------------
(* update_daily_note and update_weekly_review.  Each is a function of the  *)
(* call's arguments, the directory and document it finds, the time, and    *)
(* the step of file I/O that fails (if that step is reached).  The result  *)
(* gives the directory and document it leaves and the outcome:             *)
(*   no_vault      printed "Vault path not set", returned                  *)
(*   mkdir_failed  os.makedirs raised OSError: printed, returned           *)
(*   raised        an exception left the function                          *)
(*   error         the try block caught an exception: printed              *)
(*   updated       the section was replaced, the file written              *)
(*   appended      the section was appended, the file written              *)

Faults == {"none", "mkdir", "create", "read", "write"}

\* config.get("vault_path") or os.getenv("OBSIDIAN_VAULT_PATH"); "" when neither
vault_path(cfg, e) ==
    LET v == Get(cfg, "vault_path", "")
    IN IF v = "" THEN Get(e, "OBSIDIAN_VAULT_PATH", "") ELSE v

Result(outcome, dir, doc, pre, report) ==
    [outcome |-> outcome, dir |-> dir, doc |-> doc, pre |-> pre, report |-> report]

update_daily_note(date_obj, m, p, cfg, e, dir, doc, t, fault) ==
    IF vault_path(cfg, e) = ""
    THEN Result("no_vault", dir, doc, <<>>, <<>>)
    ELSE IF ~dir /\ fault = "mkdir"
    THEN Result("mkdir_failed", dir, doc, <<>>, <<>>)
    ELSE IF ~doc.exists /\ fault = "create"
    THEN Result("raised", TRUE, doc, <<>>, <<>>)
    ELSE
      LET onDisk == IF doc.exists THEN doc
                    ELSE [exists |-> TRUE, meta |-> <<>>,
                          body |-> <<DailyTitle(date_obj), NL, NL>>]
          post == frontmatter_load(onDisk)
          md1 == Put(post.metadata, "rize_work_hours", to_hours(Get(m, "workHours", Null)))
          md2 == Put(md1, "rize_focus_time", to_hours(Get(m, "focusTime", Null)))
          md3 == Put(md2, "rize_meeting_time", to_hours(Get(m, "meetingTime", Null)))
          md4 == Put(md3, "rize_break_time", to_hours(Get(m, "breakTime", Null)))
          md5 == Put(md4, "rize_tracked_time", to_hours(Get(m, "trackedTime", Null)))
          md6 == Put(md5, "rize_last_sync", t)
          new_report == daily_report(m, p, t)
          mg == merge(post.content, DAILY_MARKER, new_report)
      IN IF fault = "read"
         THEN Result("error", TRUE, onDisk, <<>>, <<>>)
         ELSE IF mg.raised \/ fault = "write"
         THEN Result("error", TRUE, onDisk, post.content, new_report)
         ELSE Result(mg.outcome, TRUE,
                     frontmatter_dumps([metadata |-> md6, content |-> mg.content]),
                     post.content, new_report)

update_weekly_review(start_date, end_date, am, ap, cfg, e, dir, doc, t, fault) ==
    IF vault_path(cfg, e) = ""
    THEN Result("raised", dir, doc, <<>>, <<>>)      \* os.path.join(None, ...)
    ELSE IF ~dir /\ fault = "mkdir"
    THEN Result("mkdir_failed", dir, doc, <<>>, <<>>)
    ELSE IF ~doc.exists /\ fault = "create"
    THEN Result("raised", TRUE, doc, <<>>, <<>>)
    ELSE
      LET onDisk == IF doc.exists THEN doc
                    ELSE [exists |-> TRUE, meta |-> <<>>,
                          body |-> <<WeeklyTitle(start_date), NL, NL>>]
          post == frontmatter_load(onDisk)
          md1 == Put(post.metadata, "rize_total_work_hours", to_hours(Get(am, "workHours", 0)))
          md2 == Put(md1, "rize_total_focus_time", to_hours(Get(am, "focusTime", 0)))
          md3 == Put(md2, "rize_last_sync", t)
          new_report == weekly_report(start_date, end_date, am, ap)
          mg == merge(post.content, WEEKLY_MARKER, new_report)
      IN IF fault = "read"
         THEN Result("error", TRUE, onDisk, <<>>, <<>>)
         ELSE IF mg.raised \/ fault = "write"
         THEN Result("error", TRUE, onDisk, post.content, new_report)
         ELSE Result(mg.outcome, TRUE,
                     frontmatter_dumps([metadata |-> md3, content |-> mg.content]),
                     post.content, new_report)

-----------------------------------------------------------------------------
(* Dates and documents of the model. *)

\* today - timedelta(days=today.weekday()): the Monday of d's week
start_of_week_of(d) == d - (d % 7)

\* the dates a daily run can target
DailyDates == (Today - MaxDays)..(Today + 1)
\* the weeks a weekly run can target
WeekStarts == {start_of_week_of(Today)}

\* datetime.datetime.now() at a call: the clock never goes back
ClockNext == {t \in now..(now + 1) : t <= MaxClock}

\* Bodies of notes as the user may have left them; each holds at most one
\* section of each kind.  marker is the kind the file is for, other the
\* other kind.
UserBodies(marker, other) ==
    LET old == <<H2, marker, " (old)", NL, NL, "old table">>
        notes == <<NL, NL, H2, "Other Notes", NL, "keep">>
    IN << <<>>,
          <<"# Title", NL, NL>>,
          <<"# Title", NL, NL>> \o old,
          <<"# Title", NL, NL>> \o old \o notes,
          old \o notes,
          <<"# Title">> \o notes,
          <<"# Title", NL, NL>> \o old \o <<NL, NL, H2, other, " (x)", NL, "theirs">> >>

UserDoc(body) == [exists |-> TRUE, meta |-> <<>>, body |-> body]

Cat(name, seconds) == [type |-> [name |-> name], trackedTime |-> seconds]
Proj(name, seconds) == [name |-> name, trackedTime |-> seconds]

\* (summaries, projects) as the two fetch functions return them, for the merge
MergeInputs ==
    { <<[workHours |-> 18000, focusTime |-> 3600, breakTime |-> 900, meetingTime |-> 0,
         trackedTime |-> 18000,
         categories |-> <<Cat("Coding", 3600), Cat("Email", 3600)>>],
        <<Proj("A", 1800), Proj("B", 3600)>> >>,
      <<[workHours |-> Null, focusTime |-> 3600], <<>> >>,
      <<[workHours |-> 900, categories |-> <<[trackedTime |-> 900], Cat(NAME_NEWLINE, 900)>>],
        <<Proj(NAME_GROUP1, 1800)>> >>,
      <<[workHours |-> 900, categories |-> <<>>], <<Proj(NAME_BADESC, 1800)>> >> }

\* (aggregated bucket, aggregated projects) of the weekly mode, for the merge
MergeAggInputs ==
    { <<[workHours |-> 0, focusTime |-> 0, categories |-> <<>>], <<>> >>,
      <<[workHours |-> 18000, focusTime |-> 3600,
         categories |-> <<Proj("Coding", 3600), Proj("Email", 3600)>>],
        <<Proj("A", 1800), Proj("B", 3600)>> >>,
      <<[workHours |-> 900, focusTime |-> 0, categories |-> <<Proj(NAME_NEWLINE, 900)>>],
        <<Proj(NAME_GROUP1, 1800)>> >>,
      <<[workHours |-> 900, focusTime |-> 0, categories |-> <<>>],
        <<Proj(NAME_BADESC, 1800)>> >> }

NoCall == [op |-> "none", key |-> 0, outcome |-> "none", pre |-> <<>>,
           m |-> <<>>, p |-> <<>>, t |-> 0]

Call(op, key, r, m, p, t) ==
    [op |-> op, key |-> key, outcome |-> r.outcome, pre |-> r.pre,
     m |-> m, p |-> p, t |-> t]

-----------------------------------------------------------------------------
(* The specification of the merge: one document, a daily note or a weekly  *)
(* review, and the update function of its kind called on it again and      *)
(* again with any metrics.                                                 *)

MergeInit ==
    /\ args = [weekly |-> FALSE, date |-> "", days |-> 0]
    /\ config = [vault_path |-> "/vault"]
    /\ env = [RIZE_API_KEY |-> "key"]
    /\ pc \in {"call_daily", "call_weekly"}
    /\ block = 0
    /\ dates_to_fetch = <<>>
    /\ idx = 0
    /\ metrics = <<>>
    /\ projects = <<>>
    /\ agg_metrics = <<>>
    /\ agg_projects = <<>>
    /\ fetchLog = <<>>
    /\ now = 0
    /\ fatal = FALSE
    /\ calls = 0
    /\ week_data = <<>>
    /\ last = NoCall
    /\ \E k \in 0..Len(UserBodies(DAILY_MARKER, WEEKLY_MARKER)) :
         /\ dailyDir = (k # 0)
         /\ weeklyDir = (k # 0)
         /\ daily = [d \in DailyDates |->
                       IF d = Today /\ k # 0 /\ pc = "call_daily"
                       THEN UserDoc(UserBodies(DAILY_MARKER, WEEKLY_MARKER)[k])
                       ELSE NoDoc]
         /\ weekly = [w \in WeekStarts |->
                        IF k # 0 /\ pc = "call_weekly"
                        THEN UserDoc(UserBodies(WEEKLY_MARKER, DAILY_MARKER)[k])
                        ELSE NoDoc]

CallUpdateDailyNote ==
    /\ pc = "call_daily"
    /\ calls < MaxCalls
    /\ \E in \in MergeInputs, t \in ClockNext, f \in Faults :
         LET r == update_daily_note(Today, in[1], in[2], config, env, dailyDir,
                                    daily[Today], t, f)
         IN /\ dailyDir' = r.dir
            /\ daily' = [daily EXCEPT ![Today] = r.doc]
            /\ now' = t
            /\ fatal' = (fatal \/ r.outcome = "no_vault")
            /\ last' = Call("update_daily_note", Today, r, in[1], in[2], t)
    /\ calls' = calls + 1
    /\ UNCHANGED <<args, config, env, pc, block, dates_to_fetch, idx, metrics, projects,
                   agg_metrics, agg_projects, fetchLog, weeklyDir, weekly, week_data>>

CallUpdateWeeklyReview ==
    /\ pc = "call_weekly"
    /\ calls < MaxCalls
    /\ \E in \in MergeAggInputs, t \in ClockNext, f \in Faults :
         LET w == start_of_week_of(Today)
             r == update_weekly_review(w, w + 6, in[1], in[2], config, env, weeklyDir,
                                       weekly[w], t, f)
         IN /\ weeklyDir' = r.dir
            /\ weekly' = [weekly EXCEPT ![w] = r.doc]
            /\ now' = t
            /\ last' = Call("update_weekly_review", w, r, in[1], in[2], t)
    /\ calls' = calls + 1
    /\ UNCHANGED <<args, config, env, pc, block, dates_to_fetch, idx, metrics, projects,
                   agg_metrics, agg_projects, fetchLog, dailyDir, daily, fatal, week_data>>

MergeNext == CallUpdateDailyNote \/ CallUpdateWeeklyReview

SpecMerge == MergeInit /\ [][MergeNext]_vars

-----------------------------------------------------------------------------
(* The specification of the rendering: update_daily_note or                *)
(* update_weekly_review called once, on a note that does not exist yet,    *)
(* with lists of categories and projects of any length and durations.      *)

Reverse(s) == [i \in 1..Len(s) |-> s[Len(s) + 1 - i]]

\* The lists of durations explored: long lists of two durations (ties, and
\* more entries than the tables hold), short lists of three, single
\* durations of any number of seconds
DurationLists ==
    UNION {[1..n -> {900, 1800}] : n \in 1..MaxLen}
    \cup UNION {[1..n -> {900, 1800, 2700}] : n \in 0..MaxShort}
    \cup {<<sec>> : sec \in 0..MaxSeconds}

\* Entries named by their place in the list
NamedCategories(durs) == [i \in 1..Len(durs) |-> Cat("c" \o ToString(i), durs[i])]
NamedEntries(prefix, durs) ==
    [i \in 1..Len(durs) |-> Proj(prefix \o ToString(i), durs[i])]

RenderInit ==
    /\ args = [weekly |-> FALSE, date |-> "", days |-> 0]
    /\ config = [vault_path |-> "/vault"]
    /\ env = [RIZE_API_KEY |-> "key"]
    /\ pc \in {"render_daily", "render_weekly"}
    /\ block = 0
    /\ dates_to_fetch = <<>>
    /\ idx = 0
    /\ \E durs \in DurationLists :
         IF pc = "render_daily"
         THEN /\ metrics = [workHours |-> 3600, categories |-> NamedCategories(durs)]
              /\ projects = NamedEntries("p", Reverse(durs))
              /\ agg_metrics = <<>>
              /\ agg_projects = <<>>
         ELSE /\ metrics = <<>>
              /\ projects = <<>>
              /\ agg_metrics = [workHours |-> 3600, focusTime |-> 0,
                                categories |-> NamedEntries("c", durs)]
              /\ agg_projects = NamedEntries("p", Reverse(durs))
    /\ fetchLog = <<>>
    /\ dailyDir = FALSE
    /\ weeklyDir = FALSE
    /\ daily = [d \in DailyDates |-> NoDoc]
    /\ weekly = [w \in WeekStarts |-> NoDoc]
    /\ now = 0
    /\ fatal = FALSE
    /\ calls = 0
    /\ week_data = <<>>
    /\ last = NoCall

RenderDaily ==
    /\ pc = "render_daily"
    /\ LET r == update_daily_note(Today, metrics, projects, config, env, dailyDir,
                                  daily[Today], now, "none")
       IN /\ dailyDir' = r.dir
          /\ daily' = [daily EXCEPT ![Today] = r.doc]
          /\ last' = Call("update_daily_note", Today, r, metrics, projects, now)
    /\ calls' = calls + 1
    /\ pc' = "rendered_daily"
    /\ UNCHANGED <<args, config, env, block, dates_to_fetch, idx, metrics, projects,
                   agg_metrics, agg_projects, fetchLog, weeklyDir, weekly, now, fatal,
                   week_data>>

RenderWeekly ==
    /\ pc = "render_weekly"
    /\ LET w == start_of_week_of(Today)
           r == update_weekly_review(w, w + 6, agg_metrics, agg_projects, config, env,
                                     weeklyDir, weekly[w], now, "none")
       IN /\ weeklyDir' = r.dir
          /\ weekly' = [weekly EXCEPT ![w] = r.doc]
          /\ last' = Call("update_weekly_review", w, r, agg_metrics, agg_projects, now)
    /\ calls' = calls + 1
    /\ pc' = "rendered_weekly"
    /\ UNCHANGED <<args, config, env, block, dates_to_fetch, idx, metrics, projects,
                   agg_metrics, agg_projects, fetchLog, dailyDir, daily, now, fatal,
                   week_data>>

RenderNext == RenderDaily \/ RenderWeekly

SpecRender == RenderInit /\ [][RenderNext]_vars

-----------------------------------------------------------------------------
(* The remote data source and the two fetch functions.  A response is the  *)
(* HTTP status, whether the JSON holds "errors", and the data.             *)

\* None, as the result of fetch_daily_data (which never returns an empty dict)
None == <<>>

Entry(name, seconds) == [duration |-> seconds, project |-> [name |-> name]]

\* What the remote holds for a date: the summaries of the day and its
\* project time entries.  Days differ, and share names.
SummariesOf(d) ==
    IF d % 2 = 0
    THEN [workHours |-> 1800, breakTime |-> 900, trackedTime |-> 1800,
          categories |-> <<[trackedTime |-> 900], Cat("Coding", 900), Cat("coding", 900),
                           Cat("Coding", 900)>>]
    ELSE [workHours |-> 900, focusTime |-> 900, meetingTime |-> 900,
          categories |-> <<Cat("coding", 1800), Cat("Email", 900)>>]

EntriesOf(d) ==
    IF d % 2 = 0
    THEN <<Entry("A", 1800), Entry("a", 900), [duration |-> 900], Entry("A", 900)>>
    ELSE <<[project |-> [name |-> "B"]], Entry("a", 1800),
           [duration |-> 900, project |-> [id |-> "7"]]>>

\* The answers to the summaries query for a date: a failure status, an
\* error payload, no data, the day's summaries, summaries with a null field
DailyResponses(d) ==
    { [status |-> 500, errors |-> FALSE, summaries |-> <<>>],
      [status |-> 200, errors |-> TRUE, summaries |-> <<>>],
      [status |-> 200, errors |-> FALSE, summaries |-> <<>>],
      [status |-> 200, errors |-> FALSE, summaries |-> SummariesOf(d)],
      [status |-> 200, errors |-> FALSE, summaries |->
          [workHours |-> Null, focusTime |-> 900, categories |-> <<Cat("Coding", 900)>>]] }

ProjectResponses(d) ==
    { [status |-> 500, errors |-> FALSE, entries |-> <<>>],
      [status |-> 200, errors |-> TRUE, entries |-> <<>>],
      [status |-> 200, errors |-> FALSE, entries |-> EntriesOf(d)] }

\* The answers explored in the daily loops: every kind of failure and the
\* day's data (the merge specification explores the documents' content)
DailyModeResponses(d) ==
    {r \in DailyResponses(d) : r.summaries = <<>> \/ Get(r.summaries, "workHours", 0) # Null}

fetch_daily_data(resp) ==
    IF resp.status # 200 THEN None
    ELSE IF resp.errors THEN None
    ELSE resp.summaries           \* "if not summaries: return None"

\* agg_add written as d[name] = seconds
RECURSIVE agg_add_overwrites(_, _, _)
agg_add_overwrites(d, name, seconds) ==
    IF d = <<>> THEN <<Proj(name, seconds)>>
    ELSE IF Head(d).name = name
         THEN <<Proj(name, seconds)>> \o Tail(d)
         ELSE <<Head(d)>> \o agg_add_overwrites(Tail(d), name, seconds)

\* d[name] = d.get(name, 0) + seconds, on a dict kept as a list of
\* [name, trackedTime] in insertion order
RECURSIVE agg_add(_, _, _)
agg_add(d, name, seconds) ==
    IF d = <<>> THEN <<Proj(name, seconds)>>
    ELSE IF Head(d).name = name
         THEN <<Proj(name, Head(d).trackedTime + seconds)>> \o Tail(d)
         ELSE <<Head(d)>> \o agg_add(Tail(d), name, seconds)

\* the loop of fetch_project_data over the entries
RECURSIVE project_map(_, _)
project_map(acc, entries) ==
    IF entries = <<>> THEN acc
    ELSE LET entry == Head(entries)
             p == Get(entry, "project", <<>>)
         IN IF p = <<>> THEN project_map(acc, Tail(entries))
            ELSE project_map(agg_add(acc, Get(p, "name", "Unknown"),
                                     Get(entry, "duration", 0)),
                             Tail(entries))

fetch_project_data(resp) ==
    IF resp.status # 200 THEN <<>>
    ELSE IF resp.errors THEN <<>>
    ELSE project_map(<<>>, resp.entries)

-----------------------------------------------------------------------------
(* The weekly aggregation. *)

\* "if d > today: continue"
weekly_skips(d, today) == d > today

\* the loop over metrics.get("categories", [])
RECURSIVE fold_categories(_, _)
fold_categories(acc, cats) ==
    IF cats = <<>> THEN acc
    ELSE fold_categories(agg_add(acc, CategoryName(Head(cats)),
                                 Get(Head(cats), "trackedTime", 0)),
                         Tail(cats))

\* the loop over the projects of one day
RECURSIVE fold_projects(_, _)
fold_projects(acc, ps) ==
    IF ps = <<>> THEN acc
    ELSE fold_projects(agg_add(acc, Get(Head(ps), "name", "Unknown"),
                               Get(Head(ps), "trackedTime", 0)),
                       Tail(ps))

\* "if metrics:" and the three updates of agg_metrics; int += None raises
\* TypeError
fold_metrics(am, m) ==
    IF m = None THEN [raised |-> FALSE, am |-> am]
    ELSE IF Get(m, "workHours", 0) = Null \/ Get(m, "focusTime", 0) = Null
    THEN [raised |-> TRUE, am |-> am]
    ELSE [raised |-> FALSE,
          am |-> [workHours |-> am.workHours + Get(m, "workHours", 0),
                  focusTime |-> am.focusTime + Get(m, "focusTime", 0),
                  categories |-> fold_categories(am.categories,
                                                 Get(m, "categories", <<>>))]]

-----------------------------------------------------------------------------
(* The script.  Its file holds two "if __name__ == '__main__'" blocks: the *)
(* first runs the daily mode, the second checks the API key and runs the   *)
(* weekly or the daily mode.                                               *)

isoformat(d) == "day" \o ToString(d)

\* datetime.date.fromisoformat(s): the date, or ValueError
IsIsoDate(s) == \E d \in DailyDates : isoformat(d) = s
fromisoformat(s) == CHOOSE d \in DailyDates : isoformat(d) = s

\* dates_to_fetch, from --date, --days or the configured lookback
target_dates(a, cfg) ==
    IF a.date # ""
    THEN IF IsIsoDate(a.date) THEN [ok |-> TRUE, dates |-> <<fromisoformat(a.date)>>]
         ELSE [ok |-> FALSE, dates |-> <<>>]
    ELSE IF a.days # 0
    THEN [ok |-> TRUE, dates |-> [i \in 1..a.days |-> Today - (i - 1)]]
    ELSE [ok |-> TRUE, dates |-> <<Today - Get(cfg, "default_days_lookback", 0)>>]

\* --date and --days; with --weekly, --days is left out
Invocations ==
    {[weekly |-> w, date |-> d, days |-> 0] :
        w \in BOOLEAN, d \in {"", "not-a-date", isoformat(Today + 1)}}
    \cup {[weekly |-> FALSE, date |-> "", days |-> n] : n \in ((-1)..MaxDays) \ {0}}

\* config.yaml and the environment: with a vault path, without one, without
\* the API key
Setups ==
    { <<[vault_path |-> "/vault"], [RIZE_API_KEY |-> "key"]>>,
      <<<<>>, [RIZE_API_KEY |-> "key"]>>,
      <<[vault_path |-> "/vault"], <<>> >> }

\* the vault path from the environment, and a configured lookback: read
\* when neither --date nor --days is given
DefaultSetups ==
    { <<<<>>, [RIZE_API_KEY |-> "key", OBSIDIAN_VAULT_PATH |-> "/vault"]>>,
      <<[vault_path |-> "/vault", default_days_lookback |-> 1], [RIZE_API_KEY |-> "key"]>>,
      <<[vault_path |-> "/vault", default_days_lookback |-> -1], [RIZE_API_KEY |-> "key"]>> }

Init ==
    /\ args \in Invocations
    /\ \E su \in Setups \cup (IF args.date = "" /\ args.days = 0 THEN DefaultSetups ELSE {}) :
         config = su[1] /\ env = su[2]
    /\ pc = "main1"
    /\ block = 1
    /\ dates_to_fetch = <<>>
    /\ idx = 0
    /\ metrics = None
    /\ projects = <<>>
    /\ agg_metrics = <<>>
    /\ agg_projects = <<>>
    /\ fetchLog = <<>>
    /\ dailyDir = FALSE
    /\ weeklyDir = FALSE
    /\ daily = [d \in DailyDates |-> NoDoc]
    /\ weekly = [w \in WeekStarts |-> NoDoc]
    /\ now = 0
    /\ fatal = FALSE
    /\ calls = 0
    /\ week_data = <<>>
    /\ last = NoCall

Request(fn, d, mode) == [fn |-> fn, date |-> d, block |-> block, mode |-> mode]

\* where the script goes when a daily loop ends
AfterDailyLoop(b) == IF b = 1 THEN "main2" ELSE "done"

\* First block (lines 247-278): parse the arguments, load the config, list
\* the dates; an invalid --date prints and exits
Main1 ==
    /\ pc = "main1"
    /\ LET td == target_dates(args, config)
       IN /\ dates_to_fetch' = td.dates
          /\ idx' = 1
          /\ pc' = IF ~td.ok THEN "exit1"
                   ELSE IF td.dates = <<>> THEN AfterDailyLoop(1)
                   ELSE "fetch_daily"
    /\ UNCHANGED <<args, config, env, block, metrics, projects, agg_metrics,
                   agg_projects, fetchLog, dailyDir, weeklyDir, daily, weekly, now,
                   fatal, calls, week_data, last>>

\* Second block (lines 378-402, 432-450): the API key check, then the
\* weekly mode or the daily mode again
Main2 ==
    /\ pc = "main2"
    /\ block' = 2
    /\ IF Get(env, "RIZE_API_KEY", "") = ""
       THEN /\ pc' = "exit1"
            /\ UNCHANGED <<dates_to_fetch, idx, agg_metrics, agg_projects>>
       ELSE IF args.weekly
       THEN /\ agg_metrics' = [workHours |-> 0, focusTime |-> 0, categories |-> <<>>]
            /\ agg_projects' = <<>>
            /\ idx' = 0
            /\ pc' = "weekly_loop"
            /\ UNCHANGED dates_to_fetch
       ELSE LET td == target_dates(args, config)
            IN /\ dates_to_fetch' = td.dates
               /\ idx' = 1
               /\ pc' = IF ~td.ok THEN "exit1"
                        ELSE IF td.dates = <<>> THEN AfterDailyLoop(2)
                        ELSE "fetch_daily"
               /\ UNCHANGED <<agg_metrics, agg_projects>>
    /\ UNCHANGED <<args, config, env, metrics, projects, fetchLog, dailyDir, weeklyDir,
                   daily, weekly, now, fatal, calls, week_data, last>>

\* metrics = fetch_daily_data(d) in a daily loop (lines 282, 454)
DailyFetchMetrics ==
    /\ pc = "fetch_daily"
    /\ \E resp \in DailyModeResponses(dates_to_fetch[idx]) : metrics' = fetch_daily_data(resp)
    /\ fetchLog' = Append(fetchLog, Request("fetch_daily_data", dates_to_fetch[idx], "daily"))
    /\ pc' = "fetch_project"
    /\ UNCHANGED <<args, config, env, block, dates_to_fetch, idx, projects, agg_metrics,
                   agg_projects, dailyDir, weeklyDir, daily, weekly, now, fatal, calls,
                   week_data, last>>

\* projects = fetch_project_data(d) in a daily loop (lines 283, 455)
DailyFetchProjects ==
    /\ pc = "fetch_project"
    /\ \E resp \in ProjectResponses(dates_to_fetch[idx]) : projects' = fetch_project_data(resp)
    /\ fetchLog' = Append(fetchLog, Request("fetch_project_data", dates_to_fetch[idx], "daily"))
    /\ pc' = "update_daily"
    /\ UNCHANGED <<args, config, env, block, dates_to_fetch, idx, metrics, agg_metrics,
                   agg_projects, dailyDir, weeklyDir, daily, weekly, now, fatal, calls,
                   week_data, last>>

\* "if metrics: update_daily_note(d, metrics, projects, config)" (lines
\* 285-288, 456-459), then the next date.  metrics and projects are dead
\* after the iteration and are cleared.
DailyUpdateNote ==
    /\ pc = "update_daily"
    /\ LET d == dates_to_fetch[idx]
           next == IF idx < Len(dates_to_fetch) THEN "fetch_daily" ELSE AfterDailyLoop(block)
       IN IF metrics = None
          THEN /\ pc' = next
               /\ UNCHANGED <<dailyDir, daily, now, fatal, calls, last>>
          ELSE \E t \in ClockNext, f \in Faults :
                 LET r == update_daily_note(d, metrics, projects, config, env, dailyDir,
                                            daily[d], t, f)
                 IN /\ dailyDir' = r.dir
                    /\ daily' = [daily EXCEPT ![d] = r.doc]
                    /\ now' = t
                    /\ fatal' = (fatal \/ r.outcome = "no_vault")
                    /\ calls' = calls + 1
                    /\ last' = Call("update_daily_note", d, [r EXCEPT !.pre = <<>>], <<>>, <<>>, t)
                    /\ pc' = IF r.outcome = "raised" THEN "traceback_update" ELSE next
    /\ idx' = idx + 1
    /\ metrics' = None
    /\ projects' = <<>>
    /\ UNCHANGED <<args, config, env, block, dates_to_fetch, agg_metrics, agg_projects,
                   fetchLog, weeklyDir, weekly, week_data>>

\* "for i in range(7)" with "if d > today: continue" (lines 405-410)
WeeklyLoop ==
    /\ pc = "weekly_loop"
    /\ IF idx = 7
       THEN pc' = "weekly_review" /\ idx' = idx
       ELSE IF weekly_skips(start_of_week_of(Today) + idx, Today)
       THEN pc' = "weekly_loop" /\ idx' = idx + 1
       ELSE pc' = "weekly_fetch_daily" /\ idx' = idx
    /\ UNCHANGED <<args, config, env, block, dates_to_fetch, metrics, projects,
                   agg_metrics, agg_projects, fetchLog, dailyDir, weeklyDir, daily,
                   weekly, now, fatal, calls, week_data, last>>

\* metrics = fetch_daily_data(d) and its aggregation (lines 413-421)
WeeklyFetchMetrics ==
    /\ pc = "weekly_fetch_daily"
    /\ \E resp \in DailyResponses(start_of_week_of(Today) + idx) :
         LET m == fetch_daily_data(resp)
             r == fold_metrics(agg_metrics, m)
         IN /\ metrics' = m
            /\ agg_metrics' = r.am
            /\ pc' = IF r.raised THEN "traceback_aggregate" ELSE "weekly_fetch_project"
    /\ fetchLog' = Append(fetchLog,
                          Request("fetch_daily_data", start_of_week_of(Today) + idx, "weekly"))
    /\ UNCHANGED <<args, config, env, block, dates_to_fetch, idx, projects, agg_projects,
                   dailyDir, weeklyDir, daily, weekly, now, fatal, calls, week_data, last>>

\* projects = fetch_project_data(d) and its aggregation (lines 424-427)
WeeklyFetchProjects ==
    /\ pc = "weekly_fetch_project"
    /\ \E resp \in ProjectResponses(start_of_week_of(Today) + idx) :
         LET ps == fetch_project_data(resp)
         IN /\ agg_projects' = fold_projects(agg_projects, ps)
            /\ week_data' = Append(week_data,
                                   [date |-> start_of_week_of(Today) + idx,
                                    metrics |-> metrics,
                                    entries |-> IF ps = <<>> THEN <<>> ELSE resp.entries])
    /\ fetchLog' = Append(fetchLog,
                          Request("fetch_project_data", start_of_week_of(Today) + idx, "weekly"))
    /\ idx' = idx + 1
    /\ metrics' = None
    /\ projects' = <<>>
    /\ pc' = "weekly_loop"
    /\ UNCHANGED <<args, config, env, block, dates_to_fetch, agg_metrics, dailyDir,
                   weeklyDir, daily, weekly, now, fatal, calls, last>>

\* update_weekly_review(start_of_week, end_of_week, ...) (line 429)
WeeklyReview ==
    /\ pc = "weekly_review"
    /\ \E t \in ClockNext, f \in Faults :
         LET w == start_of_week_of(Today)
             r == update_weekly_review(w, w + 6, agg_metrics, agg_projects, config, env,
                                       weeklyDir, weekly[w], t, f)
         IN /\ weeklyDir' = r.dir
            /\ weekly' = [weekly EXCEPT ![w] = r.doc]
            /\ now' = t
            /\ last' = Call("update_weekly_review", w, [r EXCEPT !.pre = <<>>], <<>>, <<>>, t)
            /\ pc' = IF r.outcome = "raised" THEN "traceback_update" ELSE "done"
    /\ calls' = calls + 1
    /\ UNCHANGED <<args, config, env, block, dates_to_fetch, idx, metrics, projects,
                   agg_metrics, agg_projects, fetchLog, dailyDir, daily, fatal, week_data>>

Next ==
    \/ Main1
    \/ DailyFetchMetrics
    \/ DailyFetchProjects
    \/ DailyUpdateNote
    \/ Main2
    \/ WeeklyLoop
    \/ WeeklyFetchMetrics
    \/ WeeklyFetchProjects
    \/ WeeklyReview

Spec == Init /\ [][Next]_vars

-----------------------------------------------------------------------------
(* What the claims about the merge speak of.  The body of a document is    *)
(* its content as frontmatter gives it: stripped.                          *)

\* The document the specification of the merge works on, and its marker
TargetDoc == IF pc = "call_daily" THEN daily[Today] ELSE weekly[start_of_week_of(Today)]
TargetMarker == IF pc = "call_daily" THEN DAILY_MARKER ELSE WEEKLY_MARKER
TargetBody == Strip(TargetDoc.body)

\* The report the last call rendered
LastReport ==
    IF last.op = "update_daily_note" THEN daily_report(last.m, last.p, last.t)
    ELSE weekly_report(last.key, last.key + 6, last.m, last.p)

\* The last call merged and wrote the document
LastMerged == last.outcome \in {"updated", "appended"}

\* Lines of the body that start with "## "
HeaderLines(body) ==
    {i \in 1..Len(body) : body[i] = H2 /\ (i = 1 \/ body[i - 1] = NL)}

\* Report sections of a kind: the lines that start with "## <marker>"
SectionStarts(body, marker) ==
    {i \in HeaderLines(body) : i < Len(body) /\ body[i + 1] = marker}

CountSections(body, marker) == Cardinality(SectionStarts(body, marker))

\* The body holds that report and no other "## " section
ContainsOnlyReport(body, marker) ==
    /\ CountSections(body, marker) = 1
    /\ HeaderLines(body) = SectionStarts(body, marker)

\* The body holds one report section, and a different "## " header after it
SectionThenHeader(body, marker) ==
    /\ CountSections(body, marker) = 1
    /\ \E j \in HeaderLines(body) : \A i \in SectionStarts(body, marker) : j > i

\* The body text before the report's line
BeforeSection(body, marker) ==
    LET i == Min(SectionStarts(body, marker))
    IN IF i <= 2 THEN <<>> ELSE SubSeq(body, 1, i - 2)

\* The next header line after the report, with the newline that starts it,
\* and everything after
AfterSection(body, marker) ==
    LET i == Min(SectionStarts(body, marker))
        j == Min({k \in HeaderLines(body) : k > i})
    IN SubSeq(body, j - 1, Len(body))

\* Two documents that differ at most in rize_last_sync
SameExceptLastSync(d1, d2) ==
    /\ d1.exists = d2.exists
    /\ d1.body = d2.body
    /\ DOMAIN d1.meta = DOMAIN d2.meta
    /\ \A k \in DOMAIN d1.meta : k # "rize_last_sync" => d1.meta[k] = d2.meta[k]

-----------------------------------------------------------------------------
(* C1: starting from a body with at most one report section of the kind,   *)
(* after a merge the body holds exactly one such section.                  *)
C1_ExactlyOneSection ==
    LastMerged => CountSections(TargetBody, TargetMarker) = 1

(* C2: with a document that holds only that report, merging twice in       *)
(* succession with identical inputs gives the document that merging once   *)
(* gave, but for rize_last_sync.                                           *)
C2_SecondMergeSameButLastSync ==
    [][ ( /\ LastMerged
          /\ ContainsOnlyReport(last.pre, TargetMarker)
          /\ last'.outcome \in {"updated", "appended"}
          /\ last'.m = last.m
          /\ last'.p = last.p )
        => SameExceptLastSync(TargetDoc, TargetDoc') ]_vars

(* C3: when the body holds a report section followed by a different "## "  *)
(* section, the merged body is the text before the report, the new report  *)
(* as rendered, and the following header with all that comes after it.     *)
C3_ReplacesOnlyTheSpan ==
    (LastMerged /\ SectionThenHeader(last.pre, TargetMarker))
    => TargetBody = Strip(BeforeSection(last.pre, TargetMarker) \o LastReport
                          \o AfterSection(last.pre, TargetMarker))

(* C4: when the body holds no report section of the kind, the call appends *)
(* the new section at the end: the prior content unchanged, one blank      *)
(* line, then the section as rendered.                                     *)
C4_AppendsAfterOneBlankLine ==
    ( /\ last.outcome \in {"updated", "appended"}
      /\ CountSections(last.pre, TargetMarker) = 0 )
    => LET b == TargetDoc.body
           n == Len(last.pre)
       IN /\ last.outcome = "appended"
          /\ Len(b) >= n + 4
          /\ SubSeq(b, 1, n) = last.pre
          /\ b[n + 1] = NL /\ b[n + 2] = NL
          /\ b[n + 3] = H2 /\ b[n + 4] = TargetMarker
          /\ SubSeq(b, n + 2, Len(b)) = RStrip(LastReport)
          /\ CountSections(TargetBody, TargetMarker) = 1

\* An append after content that ends in text, of a report with a table
C4_Witness ==
    /\ last.outcome = "appended"
    /\ CountSections(last.pre, TargetMarker) = 0
    /\ last.pre # <<>>
    /\ Len(LastReport) > 5

-----------------------------------------------------------------------------
(* What the claims about a run speak of. *)

RECURSIVE SumOver(_, _)
SumOver(S, f) ==
    IF S = {} THEN 0
    ELSE LET x == CHOOSE x \in S : TRUE IN f[x] + SumOver(S \ {x}, f)

RECURSIVE Flatten(_)
Flatten(ss) == IF ss = <<>> THEN <<>> ELSE Head(ss) \o Flatten(Tail(ss))

Permuted(s, perm) == [i \in 1..Len(s) |-> s[perm[i]]]
Perms(n) == {f \in [1..n -> 1..n] : \A i, j \in 1..n : i # j => f[i] # f[j]}

\* A dict kept as a list, as the mapping from its names to their durations
KeysUnique(d) == \A i, j \in 1..Len(d) : d[i].name = d[j].name => i = j
AsMap(d) ==
    [n \in {d[i].name : i \in 1..Len(d)} |->
        (d[CHOOSE i \in 1..Len(d) : d[i].name = n]).trackedTime]

\* The weekly loop has folded exactly the days of week_data
WeekFolded ==
    /\ block = 2 /\ args.weekly /\ agg_metrics # <<>>
    /\ pc # "weekly_fetch_project"

\* A numeric field of a day's record, a missing or null one as zero
FieldOrZero(m, f) == LET v == Get(m, f, 0) IN IF v = Null THEN 0 ELSE v
FieldSum(days, f) ==
    SumOver(1..Len(days), [i \in 1..Len(days) |-> FieldOrZero(days[i].metrics, f)])

\* The category records and the project time entries of a list of days
CategoryRecords(days) ==
    Flatten([i \in 1..Len(days) |-> Get(days[i].metrics, "categories", <<>>)])
ProjectEntries(days) ==
    SelectSeq(Flatten([i \in 1..Len(days) |-> days[i].entries]),
              LAMBDA e : Get(e, "project", <<>>) # <<>>)
EntryName(e) == Get(e.project, "name", "Unknown")

\* For each name, the sum of the durations of the records with that name
CategoryTotals(days) ==
    LET recs == CategoryRecords(days)
    IN [n \in {CategoryName(recs[i]) : i \in 1..Len(recs)} |->
          SumOver({i \in 1..Len(recs) : CategoryName(recs[i]) = n},
                  [i \in 1..Len(recs) |-> Get(recs[i], "trackedTime", 0)])]
ProjectTotals(days) ==
    LET es == ProjectEntries(days)
    IN [n \in {EntryName(es[i]) : i \in 1..Len(es)} |->
          SumOver({i \in 1..Len(es) : EntryName(es[i]) = n},
                  [i \in 1..Len(es) |-> Get(es[i], "duration", 0)])]

\* The weekly loop's two dicts after the days are folded in the order given
RECURSIVE FoldCategoriesOfDays(_, _)
FoldCategoriesOfDays(acc, days) ==
    IF days = <<>> THEN acc
    ELSE FoldCategoriesOfDays(
            fold_categories(acc, Get(Head(days).metrics, "categories", <<>>)), Tail(days))
RECURSIVE FoldProjectsOfDays(_, _)
FoldProjectsOfDays(acc, days) ==
    IF days = <<>> THEN acc
    ELSE FoldProjectsOfDays(
            fold_projects(acc, project_map(<<>>, Head(days).entries)), Tail(days))

-----------------------------------------------------------------------------
(* C5: in every run, whatever the invocation, no fetch request is issued   *)
(* for a date strictly after today's date.                                 *)
C5_NoFetchAfterToday ==
    \A i \in 1..Len(fetchLog) : fetchLog[i].date <= Today

(* C6: in weekly aggregation the five numeric fields of the aggregated     *)
(* bucket each equal the sum of that field over the fetched days, a        *)
(* missing or null field counting as zero and raising no error.            *)
C6_FiveFieldsAreSums ==
    /\ pc # "traceback_aggregate"
    /\ pc = "weekly_review" =>
         \A f \in {"workHours", "focusTime", "breakTime", "meetingTime", "trackedTime"} :
            f \in DOMAIN agg_metrics /\ agg_metrics[f] = FieldSum(week_data, f)

(* C7: the aggregated total of each category name and each project name is *)
(* the sum of the durations of all records with exactly that name, and the *)
(* name-to-duration mapping is the same for every order in which the days  *)
(* or the entries are folded.                                              *)
C7_TotalsArePerNameSums ==
    WeekFolded =>
      /\ KeysUnique(agg_metrics.categories) /\ KeysUnique(agg_projects)
      /\ AsMap(agg_metrics.categories) = CategoryTotals(week_data)
      /\ AsMap(agg_projects) = ProjectTotals(week_data)
      /\ \A perm \in Perms(Len(week_data)) :
           /\ AsMap(FoldCategoriesOfDays(<<>>, Permuted(week_data, perm)))
                = AsMap(agg_metrics.categories)
           /\ AsMap(FoldProjectsOfDays(<<>>, Permuted(week_data, perm)))
                = AsMap(agg_projects)
      /\ \A i \in 1..Len(week_data) :
           LET cats == Get(week_data[i].metrics, "categories", <<>>)
               es == week_data[i].entries
           IN /\ \A perm \in Perms(Len(cats)) :
                   AsMap(fold_categories(<<>>, Permuted(cats, perm)))
                     = CategoryTotals(<<week_data[i]>>)
              /\ \A perm \in Perms(Len(es)) :
                   AsMap(project_map(<<>>, Permuted(es, perm)))
                     = ProjectTotals(<<week_data[i]>>)

\* The loop is over, two days of data were folded, and names that differ in
\* case only have their own totals
C7_Witness ==
    /\ WeekFolded /\ pc = "weekly_review"
    /\ \E i, j \in 1..Len(week_data) :
         /\ i # j
         /\ week_data[i].metrics # None /\ week_data[j].metrics # None
         /\ week_data[i].metrics # week_data[j].metrics
         /\ week_data[i].entries # <<>> /\ week_data[j].entries # <<>>
    /\ {"Coding", "coding", "Unknown"} \subseteq DOMAIN AsMap(agg_metrics.categories)
    /\ AsMap(agg_metrics.categories)["coding"] > AsMap(agg_metrics.categories)["Coding"]
    /\ {"A", "a"} \subseteq DOMAIN AsMap(agg_projects)

(* C8: in weekly aggregation a day whose fetch failed contributes zero to  *)
(* every total and never aborts the loop: the remaining days up to today   *)
(* are still fetched and aggregated, and update_weekly_review is reached.  *)
C8_FailedDayNeverAborts ==
    (\E i \in 1..Len(week_data) : week_data[i].metrics = None) =>
        /\ pc # "traceback_aggregate"
        /\ WeekFolded => AsMap(agg_metrics.categories) = CategoryTotals(week_data)
        /\ pc = "weekly_review" => Len(week_data) = Today - start_of_week_of(Today) + 1

(* C9: in a multi-date daily batch a document I/O failure for one date is  *)
(* caught for that document only, and every later date of the list is      *)
(* still processed: while dates remain, the batch is at a step of its loop.*)
C9_BatchSurvivesDocumentFailure ==
    ( /\ ~args.weekly \/ block = 1
      /\ pc # "main1"
      /\ Len(dates_to_fetch) > 1
      /\ idx <= Len(dates_to_fetch) )
    => pc \in {"fetch_daily", "fetch_project", "update_daily"}

(* C10: once the vault path is found missing, the run attempts no further  *)
(* work: no further fetch request is issued and no directory or document   *)
(* is created or written.                                                  *)
C10_NoWorkAfterFatal ==
    [][ fatal => ( /\ fetchLog' = fetchLog
                   /\ dailyDir' = dailyDir /\ weeklyDir' = weeklyDir
                   /\ daily' = daily /\ weekly' = weekly ) ]_vars

-----------------------------------------------------------------------------
(* What the claims about the rendering speak of: the tables as they stand  *)
(* in the document the call wrote.                                         *)

\* The last call rendered a report into a new document
Rendered == pc \in {"rendered_daily", "rendered_weekly"} /\ last.outcome = "appended"
RenderedBody ==
    IF last.op = "update_daily_note" THEN daily[last.key].body ELSE weekly[last.key].body

\* The lists the last call was given, as [name, trackedTime] in the order given
GivenCategories ==
    IF last.op = "update_daily_note"
    THEN LET cs == Get(last.m, "categories", <<>>)
         IN [i \in 1..Len(cs) |-> Proj(CategoryName(cs[i]), cs[i].trackedTime)]
    ELSE Get(last.m, "categories", <<>>)
GivenProjects == last.p

CategoriesTitle ==
    IF last.op = "update_daily_note" THEN "### Top Categories" ELSE "### Top Categories (Week)"
ProjectsTitle ==
    IF last.op = "update_daily_note" THEN "### Top Projects" ELSE "### Top Projects (Week)"
TableTitles ==
    {"### Top Categories", "### Top Projects", "### Top Categories (Week)",
     "### Top Projects (Week)"}

RECURSIVE Ascending(_)
Ascending(S) == IF S = {} THEN <<>> ELSE <<Min(S)>> \o Ascending(S \ {Min(S)})

\* The rows of the table under a title, top to bottom, each <<name, time>>
TableRows(body, title) ==
    LET starts == {i \in 1..Len(body) : body[i] = title}
        from == IF starts = {} THEN Len(body) + 1 ELSE Min(starts)
        ps == Ascending({q \in (from + 1)..(Len(body) - 4) :
                            /\ body[q] = "| " /\ body[q + 2] = " | " /\ body[q + 4] = " |"
                            /\ \A j \in (from + 1)..q : body[j] \notin TableTitles})
    IN [k \in 1..Len(ps) |-> <<body[ps[k] + 1], body[ps[k] + 3]>>]

\* The place in the list of the entry a row names
PlaceOf(entries, name) == CHOOSE i \in 1..Len(entries) : entries[i].name = name

\* rows are the (at most 10) entries of largest duration, in descending
\* order, entries of equal duration in the order of the list
TopRowsOf(rows, entries) ==
    LET n == Len(entries)
        k == Len(rows)
        at(r) == PlaceOf(entries, rows[r][1])
        before(i, j) ==
            \/ entries[i].trackedTime > entries[j].trackedTime
            \/ entries[i].trackedTime = entries[j].trackedTime /\ i < j
    IN /\ k <= 10
       /\ k = (IF n < 10 THEN n ELSE 10)
       /\ \A r \in 1..k : \E i \in 1..n : entries[i].name = rows[r][1]
       /\ \A r1, r2 \in 1..k : r1 < r2 => before(at(r1), at(r2))
       /\ \A i \in 1..n :
            (\A r \in 1..k : at(r) # i) => \A r \in 1..k : before(at(r), i)

(* C11: for any non-empty list of categories, and likewise of projects,    *)
(* the rendered table lists at most 10 rows: the entries of largest        *)
(* duration in descending order, entries of equal duration in their        *)
(* original order; for the daily and for the weekly renderer.              *)
C11_TopTenStableDescending ==
    Rendered =>
      /\ GivenCategories # <<>> =>
           TopRowsOf(TableRows(RenderedBody, CategoriesTitle), GivenCategories)
      /\ GivenProjects # <<>> =>
           TopRowsOf(TableRows(RenderedBody, ProjectsTitle), GivenProjects)

\* A table of 10 rows from a longer list, where an entry that is left out
\* has the duration of one that is listed
C11_Witness ==
    /\ Rendered
    /\ Len(GivenCategories) > 10
    /\ LET rows == TableRows(RenderedBody, CategoriesTitle)
       IN /\ Len(rows) = 10
          /\ \E i \in 1..Len(GivenCategories) :
               /\ \A r \in 1..10 : rows[r][1] # GivenCategories[i].name
               /\ GivenCategories[i].trackedTime
                    = GivenCategories[PlaceOf(GivenCategories, rows[10][1])].trackedTime

\* "{h}h {m}m" with h = s div 3600 and m = (s div 60) mod 60
HoursAndMinutes(s) ==
    ToString(s \div 3600) \o "h " \o ToString((s \div 60) % 60) \o "m"

\* Every row of the table shows the duration of its entry that way
TimesShown(rows, entries) ==
    \A r \in 1..Len(rows) :
        LET sec == entries[PlaceOf(entries, rows[r][1])].trackedTime
        IN /\ rows[r][2] = HoursAndMinutes(sec)
           /\ sec = 5400 => rows[r][2] = "1h 30m"
           /\ sec = 0 => rows[r][2] = "0h 0m"

-----------------------------------------------------------------------------
(* C13: a run executes exactly one mode: invoked with --weekly, the only   *)
(* document it creates or modifies is the weekly review; no daily note is  *)
(* created or written and no daily update is performed.                    *)
C13_WeeklyRunWritesOnlyTheReview ==
    args.weekly =>
      /\ \A d \in DailyDates : daily[d] = NoDoc
      /\ ~dailyDir
      /\ last.op # "update_daily_note"

====
